---- MODULE Spec2Model ----
(***************************************************************************)
(* Water-quality API (src/api/app.py): one-shot z-score cleaning at load   *)
(* time, the mongomock-backed observation store, and the read endpoints    *)
(* observations / stats / outliers / summary / health.                     *)
(*                                                                         *)
(* Encoding conventions                                                    *)
(*   - an optional value (Python None, pandas NaN / NaT) is a sequence of  *)
(*     length 0 (absent) or 1 (<<v>>, present);                            *)
(*   - sensor values are integers, so every mean / variance / quantile     *)
(*     comparison is carried out exactly on cross-multiplied integers;     *)
(*   - a sensitivity k is carried as k2 = 2*k (k = 1.5 is k2 = 3);         *)
(*   - an ISO-8601 timestamp string is a sequence of digits, compared      *)
(*     lexicographically as Python compares strings.                       *)
(***************************************************************************)
EXTENDS Integers, Sequences, FiniteSets, TLC

VARIABLES source, cleaned_df, original_count, removed_count, collection, pc, response

vars == <<source, cleaned_df, original_count, removed_count, collection, pc, response>>

(***************************************************************************)
(* Bounds of the model                                                     *)
(***************************************************************************)
PadLen == 10
NumFree == 5
BigExtra == 1

(***************************************************************************)
(* Program constants                                                       *)
(***************************************************************************)
ZThresholdTwo == 3 - 1
ZThreshold == 3
LimitCeiling == 1000
DefaultLimit == 100
DefaultSkip == 0
DefaultK2 == 3

None == <<>>
Some(v) == <<v>>
IsNone(o) == o = <<>>
Val(o) == o[1]

NumericSet == {"temperature", "salinity", "odo"}

Abs(x) == IF x < 0 THEN -x ELSE x
Min2(a, b) == IF a <= b THEN a ELSE b
Max2(a, b) == IF a >= b THEN a ELSE b

RECURSIVE SumRange(_, _, _)
SumRange(f, lo, hi) ==
    IF lo > hi THEN 0
    ELSE IF lo = hi THEN f[lo]
    ELSE LET m == (lo + hi) \div 2
         IN SumRange(f, lo, m) + SumRange(f, m + 1, hi)

SumSeq(xs) == SumRange(xs, 1, Len(xs))
SumSq(xs) == SumRange([i \in 1..Len(xs) |-> xs[i] * xs[i]], 1, Len(xs))

(***************************************************************************)
(* The raw CSV: rows in file order.  A row holds the three sensor readings *)
(* (absent = empty cell) and, when the file has date and time columns, the *)
(* second the two parse to (absent = unparsable, pandas NaT).              *)
(***************************************************************************)
RawRow(t, s, o, c) == [temperature |-> t, salinity |-> s, odo |-> o, clock |-> c]

PadRow(i) ==
    RawRow(Some(IF i % 5 = 0 THEN 1 ELSE 0), Some(i % 2), Some((i \div 2) % 2), Some(20 + i))

Pad(n) == [i \in 1..n |-> PadRow(i)]

FreeRowList ==
    << RawRow(Some(0), Some(0), Some(0), Some(7)),
       RawRow(Some(1), Some(1), Some(1), Some(45)),
       RawRow(Some(10), Some(0), Some(1), Some(12)),
       RawRow(None, Some(1), Some(0), Some(30)),
       RawRow(Some(1), Some(0), Some(1), None),
       RawRow(Some(0), None, Some(10), Some(3)) >>

FreeRows == { FreeRowList[i] : i \in 1..(IF NumFree < Len(FreeRowList) THEN NumFree ELSE Len(FreeRowList)) }

\* At most one free row before and one after an optional pad of regular rows.
OptRows == { <<>> } \cup { <<r>> : r \in FreeRows }

SmallSources ==
    { [hasClock |-> h, rows |-> hd \o Pad(p) \o tl] :
        h \in BOOLEAN, p \in {0, PadLen}, hd \in OptRows, tl \in OptRows }

(***************************************************************************)
(* A large file: more rows than the response ceiling, values cycling so    *)
(* that no column is constant and no row is a z-score outlier.             *)
(***************************************************************************)
BigRow(i) == RawRow(Some(i % 3), Some(i % 2), Some((i \div 2) % 2), Some(i % 60))

BigSources ==
    { [hasClock |-> FALSE, rows |-> [i \in 1..(LimitCeiling + BigExtra) |-> BigRow(i)]] }

\* Ten complete rows: eight temperatures in [20, 30], two readings of 500,
\* salinity and odo varying without extreme values.
ScenarioTemp(i, step) == 20 + ((i * step) % 11)

ScenarioRows(hot, step) ==
    [i \in 1..10 |->
        RawRow(Some(IF i \in hot THEN 500 ELSE ScenarioTemp(i, step)),
               Some(30 + (i % 2)), Some(6 + ((i \div 2) % 2)), Some(i))]

ScenarioSources ==
    { [hasClock |-> FALSE, rows |-> ScenarioRows(hot, step)] :
        hot \in {{1, 2}, {5, 10}, {9, 10}}, step \in {0, 1, 3, 5} }

\* Eleven complete rows: ten temperature readings of 0 and one spike of 1
\* (|z| = sqrt(10) > 3) in first or last place, salinity and odo varying.
SpikeRows(at) ==
    [i \in 1..11 |->
        RawRow(Some(IF i = at THEN 1 ELSE 0),
               Some(i % 2), Some((i \div 2) % 2), Some(i))]

SpikeSources == { [hasClock |-> FALSE, rows |-> SpikeRows(at)] : at \in {1, 11} }

\* A first row without temperature, then twelve complete rows whose
\* temperatures hold two high readings (8 and 15, both with |z| < 3).
LadderTemps == <<0, 0, 1, 1, 2, 2, 3, 3, 15, 1, 2, 8>>

LadderRows ==
    <<RawRow(None, Some(0), Some(0), Some(0))>> \o
    [i \in 1..Len(LadderTemps) |->
        RawRow(Some(LadderTemps[i]), Some(i % 2), Some((i \div 2) % 2), Some(i))]

LadderSources == { [hasClock |-> FALSE, rows |-> LadderRows] }

Sources ==
    SmallSources \cup BigSources \cup ScenarioSources \cup SpikeSources \cup LadderSources

(***************************************************************************)
(* load_and_clean_data                                                     *)
(***************************************************************************)
\* pd.read_csv + timestamp construction (lines 30, 49-53): every row gets its
\* RangeIndex label (0-based) and a timestamp: parsed from date + time
\* (NaT when unparsable) or synthesized one second apart in row order.
ReadFrame(src) ==
    [i \in 1..Len(src.rows) |->
        [index |-> i - 1,
         timestamp |-> IF src.hasClock THEN src.rows[i].clock ELSE Some(i - 1),
         temperature |-> src.rows[i].temperature,
         salinity |-> src.rows[i].salinity,
         odo |-> src.rows[i].odo]]

\* df.dropna(subset=numeric_available) (line 63)
DropNa(df) ==
    SelectSeq(df, LAMBDA r : \A c \in NumericSet : ~IsNone(r[c]))

\* The values of one column of a frame without missing cells.
Column(df, c) == [i \in 1..Len(df) |-> Val(df[i][c])]

\* Moments of a column as scipy.stats.zscore uses them (ddof = 0):
\* n, sum S and D = n*sum(x^2) - S^2 = n^2 * variance.
Moments(xs) ==
    LET n == Len(xs)
        S == SumSeq(xs)
    IN [n |-> n, S |-> S, D |-> n * SumSq(xs) - S * S]

\* np.abs(zscore(x)) < thr, on a population z-score (x - mean) / std with
\* mean = S/n, std = sqrt(D)/n.  A constant column has z = NaN, and every
\* comparison with NaN is False.
ZAbsBelow(x, m, thr) ==
    /\ m.D # 0
    /\ (m.n * x - m.S) * (m.n * x - m.S) < thr * thr * m.D

\* np.abs(zscore(x)) > k2/2; NaN compares False.
ZAbsAbove(x, m, k2) ==
    /\ m.D # 0
    /\ \/ k2 < 0
       \/ 4 * (m.n * x - m.S) * (m.n * x - m.S) > k2 * k2 * m.D

\* mask = (z_scores < 3.0).all(axis=1); cleaned_df = df[mask] (lines 69-71)
ZScoreClean(df) ==
    LET mt == Moments(Column(df, "temperature"))
        ms == Moments(Column(df, "salinity"))
        mo == Moments(Column(df, "odo"))
        kept == SelectSeq(df, LAMBDA r :
                    /\ ZAbsBelow(Val(r.temperature), mt, ZThreshold)
                    /\ ZAbsBelow(Val(r.salinity), ms, ZThreshold)
                    /\ ZAbsBelow(Val(r.odo), mo, ZThreshold))
    IN [i \in 1..Len(kept) |->
           [index |-> kept[i].index,
            timestamp |-> kept[i].timestamp,
            temperature |-> Val(kept[i].temperature),
            salinity |-> Val(kept[i].salinity),
            odo |-> Val(kept[i].odo)]]

\* Timestamp.isoformat(), reduced to the two digits of the second.
IsoFormat(t) == <<t \div 10, t % 10>>

\* cleaned_df.to_dict('records') with the timestamp made a string when it is
\* not NaT (lines 85-89): None stands for NaT, Some(string) for a string.  The
\* index label is not part of a record.
ToRecord(r) ==
    [timestamp |-> IF IsNone(r.timestamp) THEN None ELSE Some(IsoFormat(Val(r.timestamp))),
     temperature |-> r.temperature,
     salinity |-> r.salinity,
     odo |-> r.odo]

ToRecords(df) == [i \in 1..Len(df) |-> ToRecord(df[i])]

RemovedCountComplete(orig, complete, cleaned) == Len(complete) - Len(cleaned)

\* removed_count = original_count - len(cleaned_df) (line 73)
RemovedCount(orig, complete, cleaned) == orig - Len(cleaned)

NoResponse == [op |-> "none"]

\* The process has not died at startup: an exception out of
\* load_and_clean_data (line 277) ends it before app.run (line 279).
Running == pc # "failed"

\* The process runs and no call is in progress.
Idle == Running /\ response = NoResponse

Init ==
    /\ source = None
    /\ cleaned_df = None
    /\ original_count = 0
    /\ removed_count = 0
    /\ collection = <<>>
    /\ pc = "init"
    /\ response = NoResponse

\* The file named by DATA_FILE is read when load_and_clean_data runs; source
\* records what was read.
Load ==
    /\ pc = "init"
    /\ Idle
    /\ \E src \in Sources :
         LET df == ReadFrame(src)
             complete == DropNa(df)
             cleaned == ZScoreClean(complete)
         IN /\ source' = Some(src)
            /\ original_count' = Len(df)
            /\ cleaned_df' = Some(cleaned)
            /\ removed_count' = RemovedCount(Len(df), complete, cleaned)
            /\ collection' = ToRecords(cleaned)
    /\ pc' = "ready"
    /\ UNCHANGED response

\* pd.read_csv raises on a missing or unreadable file (line 30): nothing has
\* been assigned yet, the exception leaves load_and_clean_data and the
\* process ends.
LoadFails ==
    /\ pc = "init"
    /\ Idle
    /\ pc' = "failed"
    /\ UNCHANGED <<source, cleaned_df, original_count, removed_count, collection, response>>

\* The reply of the call in progress is handed to the client; the server is
\* then free to take the next call.
Reply ==
    /\ response # NoResponse
    /\ response' = NoResponse
    /\ UNCHANGED <<source, cleaned_df, original_count, removed_count, collection, pc>>

\* /api/health
Health ==
    /\ Idle
    /\ response' = [op |-> "health", code |-> 200, status |-> "ok"]
    /\ UNCHANGED <<source, cleaned_df, original_count, removed_count, collection, pc>>

\* /api/summary
Summary ==
    /\ Idle
    /\ response' = [op |-> "summary", code |-> 200,
                    original_rows |-> original_count,
                    rows_removed |-> removed_count,
                    rows_remaining |-> IF IsNone(cleaned_df) THEN 0 ELSE Len(Val(cleaned_df))]
    /\ UNCHANGED <<source, cleaned_df, original_count, removed_count, collection, pc>>

(***************************************************************************)
(* /api/observations                                                       *)
(***************************************************************************)
\* Python's <= on two strings (sequences of digits): lexicographic, a proper
\* prefix being smaller.
RECURSIVE StrLeqFrom(_, _, _)
StrLeqFrom(a, b, i) ==
    IF i > Len(a) THEN TRUE
    ELSE IF i > Len(b) THEN FALSE
    ELSE IF a[i] < b[i] THEN TRUE
    ELSE IF a[i] > b[i] THEN FALSE
    ELSE StrLeqFrom(a, b, i + 1)

StrLeq(a, b) == StrLeqFrom(a, b, 1)

\* The query parameters a client may send.  start / end are strings, the
\* empty string standing for an omitted one as well (both are falsy); every
\* other parameter is None when omitted.
StartArgs == { <<>>, <<0, 5>> }
EndArgs == { <<>>, <<2, 4>> }
MinTempArgs == { None, Some(0) }
MaxTempArgs == { None, Some(0) }
MinSalArgs == { None, Some(1) }
MaxSalArgs == { None, Some(0) }
MinOdoArgs == { None, Some(0) }
MaxOdoArgs == { None, Some(1) }
LimitArgs == { None, Some(-1), Some(0), Some(2), Some(LimitCeiling + 1) }
SkipArgs == { None, Some(-1), Some(1) }

\* request.args.get(name, default=d, type=int) (lines 115-116)
ArgOr(arg, d) == IF IsNone(arg) THEN d ELSE Val(arg)

\* limit = min(request.args.get('limit', default=100, type=int), 1000) (line 115)
EffectiveLimit(arg) == Min2(ArgOr(arg, DefaultLimit), LimitCeiling)

\* skip = request.args.get('skip', default=0, type=int) (line 116)
EffectiveSkip(arg) == ArgOr(arg, DefaultSkip)

RangeMatchesTruthy(v, lo, hi) ==
    /\ IsNone(lo) \/ Val(lo) = 0 \/ v >= Val(lo)
    /\ IsNone(hi) \/ Val(hi) = 0 \/ v <= Val(hi)

\* One {'$gte': lo, '$lte': hi} clause on a numeric field; the clause is only
\* put in the query when a bound is not None (lines 131-155).
RangeMatches(v, lo, hi) ==
    /\ IsNone(lo) \/ v >= Val(lo)
    /\ IsNone(hi) \/ v <= Val(hi)

\* The timestamp clause, built when start or end is truthy (lines 122-128).
\* The store compares strings with strings; a NaT timestamp matches no
\* string bound.
TimeMatches(ts, start, end) ==
    \/ (start = <<>> /\ end = <<>>)
    \/ /\ ~IsNone(ts)
       /\ start = <<>> \/ StrLeq(start, Val(ts))
       /\ end = <<>> \/ StrLeq(Val(ts), end)

\* Does a stored document satisfy the query built from the arguments?
QueryMatches(doc, a) ==
    /\ TimeMatches(doc.timestamp, a.start, a.end)
    /\ RangeMatches(doc.temperature, a.min_temp, a.max_temp)
    /\ RangeMatches(doc.salinity, a.min_sal, a.max_sal)
    /\ RangeMatches(doc.odo, a.min_odo, a.max_odo)

\* collection.find(query): the matching documents in insertion order.
Find(coll, a) == SelectSeq(coll, LAMBDA d : QueryMatches(d, a))

\* cursor.skip(skip).limit(limit) as mongomock evaluates it:
\* results[skip:], then results[:abs(limit)] unless limit is 0 (no limit).
\* A negative skip is a Python slice from the end.
CursorSkip(results, skip) ==
    LET n == Len(results)
        from == IF skip >= 0 THEN Min2(skip, n) ELSE Max2(n + skip, 0)
    IN SubSeq(results, from + 1, n)

CursorLimit(results, limit) ==
    IF limit = 0 THEN results
    ELSE SubSeq(results, 1, Min2(Abs(limit), Len(results)))

ObservationArgs ==
    [start : StartArgs, end : EndArgs,
     min_temp : MinTempArgs, max_temp : MaxTempArgs,
     min_sal : MinSalArgs, max_sal : MaxSalArgs,
     min_odo : MinOdoArgs, max_odo : MaxOdoArgs,
     limit : LimitArgs, skip : SkipArgs]

Observations ==
    /\ Idle
    /\ \E a \in ObservationArgs :
         LET limit == EffectiveLimit(a.limit)
             skip == EffectiveSkip(a.skip)
             matches == Find(collection, a)
             items == CursorLimit(CursorSkip(matches, skip), limit)
         IN response' = [op |-> "observations", code |-> 200, args |-> a,
                         count |-> Len(matches),
                         returned |-> Len(items),
                         items |-> items]
    /\ UNCHANGED <<source, cleaned_df, original_count, removed_count, collection, pc>>

(***************************************************************************)
(* Quantiles (pandas, linear interpolation), kept as 4 * value             *)
(***************************************************************************)
Range(xs) == { xs[i] : i \in 1..Len(xs) }

CountBelow(xs, v) == Cardinality({ i \in 1..Len(xs) : xs[i] < v })
CountUpTo(xs, v) == Cardinality({ i \in 1..Len(xs) : xs[i] <= v })

\* The k-th smallest value of xs, k counted from 0.
OrderStat(xs, k) ==
    CHOOSE v \in Range(xs) : CountBelow(xs, v) <= k /\ k < CountUpTo(xs, v)

\* 4 * Series.quantile(q4 / 4) of a non-empty xs: position h = (n-1) * q4/4,
\* value s[floor h] + frac(h) * (s[floor h + 1] - s[floor h]).
Quantile4(xs, q4) ==
    LET h4 == q4 * (Len(xs) - 1)
        lo == h4 \div 4
        r == h4 % 4
        a == OrderStat(xs, lo)
        b == IF r = 0 THEN a ELSE OrderStat(xs, lo + 1)
    IN 4 * a + r * (b - a)

(***************************************************************************)
(* /api/outliers                                                           *)
(***************************************************************************)
FieldArgs == { None, Some("temperature"), Some("salinity"), Some("odo"), Some("depth") }
MethodArgs == { None, Some("iqr"), Some("zscore"), Some("mad") }
K2Args == { None, Some(0), Some(2), Some(3), Some(6) }

OutlierArgs == [field : FieldArgs, method : MethodArgs, k : K2Args]

\* k = request.args.get('k', default=1.5, type=float) (line 214), doubled.
EffectiveK2(arg) == ArgOr(arg, DefaultK2)

\* cleaned_df.columns
Columns == { "timestamp", "temperature", "salinity", "odo" }

\* (data < Q1 - k*IQR) | (data > Q3 + k*IQR) (lines 227-232), in eighths;
\* the quantile of an empty column is NaN and nothing compares with NaN.
\* data[outlier_mask].index.tolist() (lines 233, 239): the index LABELS of
\* the flagged rows, in frame order.
OutsideBandInclusive(x8, lo8, hi8) == x8 <= lo8 \/ x8 >= hi8

\* (data < lower) | (data > upper) (line 232): strict on both sides.
OutsideBand(x8, lo8, hi8) == x8 < lo8 \/ x8 > hi8

IqrIndices(df, field, k2) ==
    LET xs == [i \in 1..Len(df) |-> df[i][field]]
        q1 == IF Len(xs) > 0 THEN Quantile4(xs, 1) ELSE 0
        q3 == IF Len(xs) > 0 THEN Quantile4(xs, 3) ELSE 0
        iqr == q3 - q1
        hit == SelectSeq(df, LAMBDA r :
                   OutsideBand(8 * r[field], 2 * q1 - k2 * iqr, 2 * q3 + k2 * iqr))
    IN [i \in 1..Len(hit) |-> hit[i].index]

ZScoreIndices(df, field, k2) ==
    LET xs == [i \in 1..Len(df) |-> df[i][field]]
        m == Moments(xs)
        hit == SelectSeq(df, LAMBDA r : ZAbsAbove(r[field], m, k2))
    IN [i \in 1..Len(hit) |-> hit[i].index]

\* cleaned_df.iloc[outlier_indices] (line 245): the labels are used as
\* POSITIONS; a position past the end raises IndexError.
IlocInBounds(df, idx) == \A i \in 1..Len(idx) : idx[i] < Len(df)
Iloc(df, idx) == [i \in 1..Len(idx) |-> df[idx[i] + 1]]

MethodKnownOrDefault(method) == TRUE

\* The if / elif / else over the method names (lines 225, 235, 241).
MethodKnown(method) == method \in {"iqr", "zscore"}

ErrorResponse(op, a, code, msg) == [op |-> op, code |-> code, args |-> a, error |-> msg]

OutliersResponse(a) ==
    LET field == ArgOr(a.field, "temperature")
        method == ArgOr(a.method, "iqr")
        k2 == EffectiveK2(a.k)
    IN IF IsNone(cleaned_df) THEN ErrorResponse("outliers", a, 500, "Data not loaded")
       ELSE IF field \notin Columns THEN ErrorResponse("outliers", a, 400, "Field not found")
       ELSE IF ~MethodKnown(method)
            THEN ErrorResponse("outliers", a, 400, "Method must be 'iqr' or 'zscore'")
       ELSE LET df == Val(cleaned_df)
                idx == IF method = "iqr" THEN IqrIndices(df, field, k2)
                       ELSE ZScoreIndices(df, field, k2)
            IN IF ~IlocInBounds(df, idx)
               THEN ErrorResponse("outliers", a, 500, "IndexError")
               ELSE [op |-> "outliers", code |-> 200, args |-> a,
                     method |-> method, field |-> field, k2 |-> k2,
                     outlier_count |-> Len(idx),
                     outliers |-> ToRecords(Iloc(df, idx))]

OutliersForgetting ==
    /\ Idle
    /\ \E a \in OutlierArgs : response' = OutliersResponse(a)
    /\ cleaned_df' = IF response'.code = 500 THEN None ELSE cleaned_df
    /\ UNCHANGED <<source, original_count, removed_count, collection, pc>>

Outliers ==
    /\ Idle
    /\ \E a \in OutlierArgs : response' = OutliersResponse(a)
    /\ UNCHANGED <<source, cleaned_df, original_count, removed_count, collection, pc>>

(***************************************************************************)
(* /api/stats                                                              *)
(***************************************************************************)
\* DataFrame.describe() of one column.  NaN is None; the mean is the
\* fraction <<S, n>>, the sample variance (std squared, n-1 denominator)
\* the fraction <<D, n*n*(n-1)>> * n = <<D, n*(n-1)>>, quartiles 4 * value.
Describe(xs) ==
    LET n == Len(xs)
        m == Moments(xs)
    IN [count |-> n,
        mean |-> IF n = 0 THEN None ELSE Some(<<m.S, n>>),
        var |-> IF n < 2 THEN None ELSE Some(<<m.D, n * (n - 1)>>),
        min |-> IF n = 0 THEN None ELSE Some(OrderStat(xs, 0)),
        q25 |-> IF n = 0 THEN None ELSE Some(Quantile4(xs, 1)),
        q50 |-> IF n = 0 THEN None ELSE Some(Quantile4(xs, 2)),
        q75 |-> IF n = 0 THEN None ELSE Some(Quantile4(xs, 3)),
        max |-> IF n = 0 THEN None ELSE Some(OrderStat(xs, n - 1))]

StatsResponse ==
    IF IsNone(cleaned_df) THEN ErrorResponse("stats", None, 500, "Data not loaded")
    ELSE LET df == Val(cleaned_df)
         IN [op |-> "stats", code |-> 200,
             stats |-> [c \in NumericSet |-> Describe([i \in 1..Len(df) |-> df[i][c]])]]

Stats ==
    /\ Idle
    /\ response' = StatsResponse
    /\ UNCHANGED <<source, cleaned_df, original_count, removed_count, collection, pc>>

Next ==
    \/ Load
    \/ LoadFails
    \/ Health
    \/ Summary
    \/ Observations
    \/ Stats
    \/ Outliers
    \/ Reply

Spec == Init /\ [][Next]_vars

(***************************************************************************)
(* load_and_clean_data statement by statement, with the handlers running   *)
(* between its steps: the globals and the collection are assigned one at a *)
(* time (lines 31, 71, 73, 82, 92) and nothing excludes a handler thread.  *)
(***************************************************************************)
ConcSources == SpikeSources \cup LadderSources

\* df = pd.read_csv(...); original_count = len(df) (lines 30-31)
LoadRead ==
    /\ pc = "init"
    /\ Idle
    /\ \E src \in ConcSources :
         /\ source' = Some(src)
         /\ original_count' = Len(ReadFrame(src))
    /\ pc' = "read"
    /\ UNCHANGED <<cleaned_df, removed_count, collection, response>>

\* dropna, z-scores, cleaned_df = df[mask].copy() (lines 60-71)
LoadClean ==
    /\ pc = "read"
    /\ Idle
    /\ cleaned_df' = Some(ZScoreClean(DropNa(ReadFrame(Val(source)))))
    /\ pc' = "cleaned"
    /\ UNCHANGED <<source, original_count, removed_count, collection, response>>

\* removed_count = original_count - len(cleaned_df) (line 73)
LoadCount ==
    /\ pc = "cleaned"
    /\ Idle
    /\ removed_count' = RemovedCount(original_count,
                                     DropNa(ReadFrame(Val(source))), Val(cleaned_df))
    /\ pc' = "counted"
    /\ UNCHANGED <<source, cleaned_df, original_count, collection, response>>

\* collection.drop() (line 82)
LoadDrop ==
    /\ pc = "counted"
    /\ Idle
    /\ collection' = <<>>
    /\ pc' = "dropped"
    /\ UNCHANGED <<source, cleaned_df, original_count, removed_count, response>>

\* records = cleaned_df.to_dict('records'); collection.insert_many(records)
\* (lines 85-92)
LoadInsert ==
    /\ pc = "dropped"
    /\ Idle
    /\ collection' = ToRecords(Val(cleaned_df))
    /\ pc' = "ready"
    /\ UNCHANGED <<source, cleaned_df, original_count, removed_count, response>>

NextConc ==
    \/ LoadRead
    \/ LoadClean
    \/ LoadCount
    \/ LoadDrop
    \/ LoadInsert
    \/ Health
    \/ Summary
    \/ Observations
    \/ Stats
    \/ Outliers
    \/ Reply

SpecConc == Init /\ [][NextConc]_vars

(***************************************************************************)
(* Properties                                                              *)
(***************************************************************************)
Loaded == pc = "ready"
Frame == ReadFrame(Val(source))
Complete == DropNa(Frame)
Cleaned == Val(cleaned_df)
KeptLabels == { Cleaned[i].index : i \in 1..Len(Cleaned) }

\* C1: after load_and_clean_data the summary reports
\* original_rows = rows_removed + rows_remaining, rows_remaining being the size
\* of the cleaned set and original_rows the rows read, whatever calls came before.
C1_ProvenanceBalance ==
    (Loaded /\ response.op = "summary") =>
        /\ response.original_rows = response.rows_removed + response.rows_remaining
        /\ response.rows_remaining = Len(Cleaned)
        /\ response.original_rows = Len(Val(source).rows)

\* C1 witness: a summary over a load that dropped an incomplete row and a
\* z-score outlier and kept the rest.
C1_Witness ==
    /\ Loaded
    /\ response.op = "summary"
    /\ Len(Complete) < Len(Frame)
    /\ Len(Cleaned) < Len(Complete)
    /\ response.rows_remaining > 0
    /\ response.rows_removed = 2

\* |z| < 3 for the z-score taken with the SAMPLE standard deviation (n - 1
\* denominator): z^2 = (n*x - S)^2 * (n - 1) / (n * D).
SampleZBelow3(x, m) == (m.n * x - m.S) * (m.n * x - m.S) * (m.n - 1) < 9 * m.n * m.D

\* The moments of every numeric column over the complete rows.
CompleteMoments == [c \in NumericSet |-> Moments(Column(Complete, c))]

\* C2: with z = (x - mean) / std from the sample mean and standard deviation
\* over the complete rows, every kept row has |z| < 3.0 in every field of
\* non-zero variance and every excluded complete row has |z| >= 3.0 in some field.
C2_ZScoreCleaning ==
    Loaded =>
        LET rows == Complete
            m == CompleteMoments
            kept == KeptLabels
        IN \A i \in 1..Len(rows) :
               IF rows[i].index \in kept
               THEN \A c \in NumericSet :
                        m[c].D # 0 => SampleZBelow3(Val(rows[i][c]), m[c])
               ELSE \E c \in NumericSet :
                        m[c].D # 0 /\ ~SampleZBelow3(Val(rows[i][c]), m[c])

\* C3: a field of zero or undefined standard deviation rejects no row: its
\* z-score counts as 0, so a complete row within bounds in every other field
\* is kept.
C3_DegenerateFieldKeepsRows ==
    Loaded =>
        LET rows == Complete
            m == CompleteMoments
            kept == KeptLabels
        IN \A i \in 1..Len(rows) :
               (\A c \in NumericSet :
                    m[c].D = 0 \/ ZAbsBelow(Val(rows[i][c]), m[c], 3))
               => rows[i].index \in kept

ScenarioLoaded == Loaded /\ Val(source) \in ScenarioSources

ScenarioZScoreCall ==
    /\ response.op = "outliers"
    /\ ArgOr(response.args.field, "temperature") = "temperature"
    /\ response.args.method = Some("zscore")
    /\ response.args.k = Some(6)

StrictlyOutside(x, xs, k2) ==
    LET q1 == Quantile4(xs, 1)
        q3 == Quantile4(xs, 3)
    IN \/ 8 * x < 2 * q1 - k2 * (q3 - q1)
       \/ 8 * x > 2 * q3 + k2 * (q3 - q1)

IqrCall ==
    /\ Loaded
    /\ response.op = "outliers"
    /\ ArgOr(response.args.method, "iqr") = "iqr"
    /\ ArgOr(response.args.field, "temperature") \in NumericSet

\* C5: an IQR call on a loaded cleaned set returns exactly the records of the
\* cleaned set whose value lies strictly outside the bounds, and counts them.
C5_IqrReturnsOutliers ==
    IqrCall =>
        LET f == ArgOr(response.args.field, "temperature")
            xs == [i \in 1..Len(Cleaned) |-> Cleaned[i][f]]
            want == SelectSeq(Cleaned, LAMBDA r :
                        StrictlyOutside(r[f], xs, ArgOr(response.args.k, 3)))
        IN /\ response.code = 200
           /\ response.outliers = ToRecords(want)
           /\ response.outlier_count = Len(want)

\* The second a two-digit ISO string denotes.
ParseIso(str) == 10 * str[1] + str[2]

\* A stored record satisfies the bounds of a request: every bound that is
\* present holds, inclusively; times are compared as times.
SatisfiesBounds(doc, a) ==
    /\ a.start # <<>> => (~IsNone(doc.timestamp) /\ ParseIso(Val(doc.timestamp)) >= ParseIso(a.start))
    /\ a.end # <<>> => (~IsNone(doc.timestamp) /\ ParseIso(Val(doc.timestamp)) <= ParseIso(a.end))
    /\ ~IsNone(a.min_temp) => doc.temperature >= Val(a.min_temp)
    /\ ~IsNone(a.max_temp) => doc.temperature <= Val(a.max_temp)
    /\ ~IsNone(a.min_sal) => doc.salinity >= Val(a.min_sal)
    /\ ~IsNone(a.max_sal) => doc.salinity <= Val(a.max_sal)
    /\ ~IsNone(a.min_odo) => doc.odo >= Val(a.min_odo)
    /\ ~IsNone(a.max_odo) => doc.odo <= Val(a.max_odo)

Satisfying(a) == { i \in 1..Len(collection) : SatisfiesBounds(collection[i], a) }

\* The limit and skip of a request as the interface defines them: limit
\* omitted is 100 and is capped at 1000, skip omitted or negative is 0.
RequestedLimit(a) == Min2(ArgOr(a.limit, 100), 1000)
RequestedSkip(a) == Max2(ArgOr(a.skip, 0), 0)

\* C6: count is the number of matching records whatever limit and skip are,
\* and returned = min(count - skip, limit) when skip < count, else 0.
C6_PageSize ==
    response.op = "observations" =>
        LET total == Cardinality(Satisfying(response.args))
            lim == RequestedLimit(response.args)
            skp == RequestedSkip(response.args)
        IN /\ response.count = total
           /\ response.returned = IF skp < total THEN Min2(total - skp, lim) ELSE 0

\* C7: whatever limit the client sends, at most 1000 items are returned.
C7_AtMostCeiling ==
    response.op = "observations" => response.returned <= 1000

\* C8: a call with skip negative or omitted is answered as the same call with
\* skip = 0: the first page of matches, not an error.
C8_NegativeSkipIsZero ==
    (response.op = "observations" /\ ArgOr(response.args.skip, 0) <= 0) =>
        /\ response.code = 200
        /\ response.items =
               CursorLimit(CursorSkip(Find(collection, response.args), 0),
                           EffectiveLimit(response.args.limit))

\* C9: a stored record is counted and returned iff it satisfies every bound
\* that is present (inclusive); absent bounds do not constrain.
C9_BoundsDecideMatches ==
    response.op = "observations" =>
        LET a == response.args
        IN /\ response.count = Cardinality(Satisfying(a))
           /\ \A i \in 1..Len(response.items) : SatisfiesBounds(response.items[i], a)
           /\ (IsNone(a.limit) /\ IsNone(a.skip) /\ response.count <= 100) =>
                  response.items = SelectSeq(collection, LAMBDA d : SatisfiesBounds(d, a))

\* C9 witness: a call with a bound equal to 0, a one-sided bound and a time
\* bound that keeps some stored records and rejects others.
C9_Witness ==
    /\ Loaded
    /\ response.op = "observations"
    /\ response.args.max_temp = Some(0)
    /\ IsNone(response.args.min_temp)
    /\ response.args.start # <<>>
    /\ IsNone(response.args.limit) /\ IsNone(response.args.skip)
    /\ response.count > 0
    /\ response.count < Len(collection)
    /\ \E i \in 1..Len(collection) : collection[i].temperature > 0

\* C10: without a k parameter the sensitivity is 1.5 for the IQR method and
\* 3.0 for the z-score method (k2 = 3 and k2 = 6).
C10_DefaultKByMethod ==
    (response.op = "outliers" /\ response.code = 200 /\ IsNone(response.args.k)) =>
        response.k2 = IF response.method = "iqr" THEN 3 ELSE 6

\* C11: on a loaded store a call with an unknown method or an unknown field is
\* answered with a client error (400) and no outlier list.
C11_UnknownInputRejected ==
    (/\ Loaded
     /\ response.op = "outliers"
     /\ \/ ArgOr(response.args.method, "iqr") \notin {"iqr", "zscore"}
        \/ ArgOr(response.args.field, "temperature") \notin
               {"timestamp", "temperature", "salinity", "odo"})
    => /\ response.code = 400
       /\ "outliers" \notin DOMAIN response
       /\ "outlier_count" \notin DOMAIN response

\* C11 witness: an unknown method on a known field of a non-empty cleaned set
\* whose IQR call would have found outliers.
C11_Witness ==
    /\ Loaded
    /\ response.op = "outliers"
    /\ response.args.method = Some("mad")
    /\ response.args.field = Some("temperature")
    /\ response.code = 400
    /\ Len(Cleaned) > 0
    /\ Len(IqrIndices(Cleaned, "temperature", 3)) > 0

\* C12: a statistics request on a loaded but empty cleaned set is answered
\* with an error, never with a success mapping.
C12_EmptySetStatsIsError ==
    (/\ Loaded
     /\ Len(Cleaned) = 0
     /\ response.op = "stats")
    => response.code # 200

\* The cleaned set is non-empty and every row carries the same value of field.
ConstantField(field) ==
    /\ Len(Cleaned) > 0
    /\ \A i \in 1..Len(Cleaned) : Cleaned[i][field] = Cleaned[1][field]

\* C13: on a field that is constant across a non-empty cleaned set, both
\* methods answer with a valid response reporting no outliers, whatever k >= 0.
C13_ConstantFieldNoOutliers ==
    (/\ Loaded
     /\ response.op = "outliers"
     /\ ArgOr(response.args.method, "iqr") \in {"iqr", "zscore"}
     /\ ArgOr(response.args.field, "temperature") \in NumericSet
     /\ ConstantField(ArgOr(response.args.field, "temperature")))
    => /\ response.code = 200
       /\ response.outlier_count = 0
       /\ response.outliers = <<>>

\* C13 witness: an IQR call with k = 0 on the constant temperature of a
\* ten-row cleaned set.
C13_Witness ==
    /\ Loaded
    /\ response.op = "outliers"
    /\ response.args.method = Some("iqr")
    /\ response.args.field = Some("temperature")
    /\ response.args.k = Some(0)
    /\ Len(Cleaned) = 10
    /\ ConstantField("temperature")
    /\ response.code = 200

\* The answer the loaded store gives to the outlier call of the current
\* response when only k is replaced by k2 / 2.
OutliersAtK2(k2) == OutliersResponse([response.args EXCEPT !.k = Some(k2)])

\* C14: IQR outlier sets shrink as k grows: every observation returned at the
\* larger multiplier is also returned at every smaller one, same field and store.
C14_IqrMonotonicInK ==
    (/\ Loaded
     /\ response.op = "outliers"
     /\ response.code = 200
     /\ response.method = "iqr")
    => \A k1 \in { Val(k) : k \in K2Args \ {None} } :
           k1 <= response.k2 =>
               \A i \in 1..Len(response.outliers) :
                   /\ OutliersAtK2(k1).code = 200
                   /\ response.outliers[i] \in Range(OutliersAtK2(k1).outliers)

\* C15: a read operation (observations, stats, outliers, summary) answered
\* before load_and_clean_data has completed is never a success.
C15_NoSuccessBeforeLoad ==
    (/\ pc = "init"
     /\ response.op \in {"observations", "stats", "outliers", "summary"})
    => response.code # 200

\* The store as it is before any load: nothing read, nothing stored.
InitialSnapshot ==
    /\ IsNone(cleaned_df)
    /\ collection = <<>>
    /\ original_count = 0
    /\ removed_count = 0

\* The store as a finished load leaves it: the collection holds the cleaned
\* set and the counters account for it.
CompleteSnapshot ==
    /\ ~IsNone(cleaned_df)
    /\ collection = ToRecords(Val(cleaned_df))
    /\ original_count = Len(Val(source).rows)
    /\ removed_count = original_count - Len(Val(cleaned_df))

BadSource ==
    \/ pc = "failed"
    \/ ~IsNone(source) /\ Len(Val(source).rows) = 0

\* C17: an unreadable or empty source ends the load in a fatal startup
\* error: the process never becomes ready on an empty data set and never
\* serves a health response.
C17_BadSourceIsFatal ==
    BadSource => /\ pc # "ready"
                 /\ IsNone(cleaned_df)
                 /\ response.op # "health"

\* C18: after ingestion no call, whether it succeeds, returns an empty result
\* or returns an error, changes the collection, the cleaned set or the
\* provenance counters.
C18_ReadsLeaveStoreUnchanged ==
    [][Loaded => UNCHANGED <<collection, cleaned_df, original_count, removed_count>>]_vars

\* C18 witness: an outlier call that ended in a server error on a loaded,
\* non-empty store that still matches its cleaned set and counters.
C18_Witness ==
    /\ Loaded
    /\ response.op = "outliers"
    /\ response.code = 500
    /\ collection # <<>>
    /\ collection = ToRecords(Cleaned)
    /\ original_count - removed_count = Len(Cleaned)

====
